---- MODULE Spec2Model ----
(***************************************************************************)
(* Dry gas seal heat-transfer calculator: the calculation routine          *)
(* calculateHeatTransfer (utils/formulas) and the App component that       *)
(* holds the inputs, recomputes the results in an effect and asks the      *)
(* summarization service for a text (services/geminiService).              *)
(*                                                                         *)
(* A JavaScript number is modelled as a binary floating-point value with   *)
(* sign, integer significand and exponent, round-to-nearest-even, signed   *)
(* zeros, gradual underflow, overflow to Infinity, and NaN.  The exponent  *)
(* range is that of an IEEE-754 double; the significand has Precision     *)
(* bits instead of 53, which keeps every product inside TLC's integers.    *)
(***************************************************************************)
EXTENDS Integers, Sequences, FiniteSets

(***************************************************************************)
(* number                                                                  *)
(***************************************************************************)
Precision == 6
\* value of a finite number: s * m * 2^e, with EMin <= e <= EMax
EMax == 1018
EMin == -1027

NaN == [k |-> "nan", s |-> 1, m |-> 0, e |-> 0]
Infinity(s) == [k |-> "inf", s |-> s, m |-> 0, e |-> 0]
Zero(s) == [k |-> "zero", s |-> s, m |-> 0, e |-> 0]
Fin(s, m, e) == [k |-> "fin", s |-> s, m |-> m, e |-> e]

IsNaN(x) == x.k = "nan"
IsFinite(x) == x.k \in {"zero", "fin"}

RECURSIVE BitLen(_)
BitLen(m) == IF m = 0 THEN 0 ELSE 1 + BitLen(m \div 2)

MaxOf(a, b) == IF a >= b THEN a ELSE b

\* Round the exact value s * M * 2^E (M > 0) to the nearest number, ties to
\* even; too small becomes a subnormal or zero, too large becomes Infinity.
Round(s, M, E) ==
  LET L == BitLen(M)
      e == MaxOf(E + L - Precision, EMin)
      sh == e - E
      q == IF sh <= 0 THEN M * 2^(0 - sh)
           ELSE IF sh > L + 1 THEN 0
           ELSE M \div 2^sh
      r == IF sh <= 0 \/ sh > L + 1 THEN 0 ELSE M % 2^sh
      half == IF sh <= 0 \/ sh > L + 1 THEN 1 ELSE 2^(sh - 1)
      up == IF r > half \/ (r = half /\ q % 2 = 1) THEN 1 ELSE 0
      m == q + up
      carry == (m = 2^Precision)
      m2 == IF carry THEN 2^(Precision - 1) ELSE m
      e2 == IF carry THEN e + 1 ELSE e
  IN  IF M = 0 \/ m2 = 0 THEN Zero(s)
      ELSE IF e2 > EMax THEN Infinity(s)
      ELSE Fin(s, m2, e2)

\* The number nearest to the rational n / d (n >= 0, d > 0): how a decimal
\* literal of the source, or a parsed text, becomes a number.
FromRational(n, d) ==
  IF n = 0 THEN Zero(1)
  ELSE LET k == MaxOf(BitLen(d) + Precision - BitLen(n) + 1, 0)
           q == (n * 2^k) \div d
           r == (n * 2^k) % d
       IN  Round(1, 2 * q + (IF r = 0 THEN 0 ELSE 1), 0 - k - 1)

Neg(x) == IF IsNaN(x) THEN x ELSE [x EXCEPT !.s = 0 - x.s]

\* x * y
Mul(x, y) ==
  IF IsNaN(x) \/ IsNaN(y) THEN NaN
  ELSE IF x.k = "inf" \/ y.k = "inf"
       THEN IF x.k = "zero" \/ y.k = "zero" THEN NaN ELSE Infinity(x.s * y.s)
  ELSE IF x.k = "zero" \/ y.k = "zero" THEN Zero(x.s * y.s)
  ELSE Round(x.s * y.s, x.m * y.m, x.e + y.e)

\* x / y
Div(x, y) ==
  IF IsNaN(x) \/ IsNaN(y) THEN NaN
  ELSE IF x.k = "inf" THEN (IF y.k = "inf" THEN NaN ELSE Infinity(x.s * y.s))
  ELSE IF y.k = "inf" THEN Zero(x.s * y.s)
  ELSE IF y.k = "zero" THEN (IF x.k = "zero" THEN NaN ELSE Infinity(x.s * y.s))
  ELSE IF x.k = "zero" THEN Zero(x.s * y.s)
  ELSE LET k1 == Precision - BitLen(x.m)
           k2 == Precision - BitLen(y.m)
           m1 == x.m * 2^k1
           m2 == y.m * 2^k2
           q == (m1 * 2^(Precision + 2)) \div m2
           r == (m1 * 2^(Precision + 2)) % m2
       IN  Round(x.s * y.s, 2 * q + (IF r = 0 THEN 0 ELSE 1),
                 (x.e - k1) - (y.e - k2) - (Precision + 2) - 1)

\* x + y
Add(x, y) ==
  IF IsNaN(x) \/ IsNaN(y) THEN NaN
  ELSE IF x.k = "inf" THEN (IF y.k = "inf" /\ y.s # x.s THEN NaN ELSE x)
  ELSE IF y.k = "inf" THEN y
  ELSE IF x.k = "zero" /\ y.k = "zero"
       THEN Zero(IF x.s = 1 \/ y.s = 1 THEN 1 ELSE 0 - 1)
  ELSE IF x.k = "zero" THEN y
  ELSE IF y.k = "zero" THEN x
  ELSE LET hi == IF x.e >= y.e THEN x ELSE y
           lo == IF x.e >= y.e THEN y ELSE x
           d == hi.e - lo.e
           k == Precision - BitLen(hi.m)
           far == d > 2 * Precision + 2
           M == IF far THEN hi.s * hi.m * 2^(k + 3) + lo.s
                ELSE hi.s * hi.m * 2^d + lo.s * lo.m
           E == IF far THEN hi.e - k - 3 ELSE lo.e
       IN  IF M = 0 THEN Zero(1)
           ELSE IF M > 0 THEN Round(1, M, E) ELSE Round(0 - 1, 0 - M, E)

\* x < y as JavaScript compares numbers: false when either is NaN, -0 = +0
Lt(x, y) ==
  IF IsNaN(x) \/ IsNaN(y) THEN FALSE
  ELSE LET sx == IF x.k = "zero" THEN 0 ELSE x.s
           sy == IF y.k = "zero" THEN 0 ELSE y.s
           \* magnitude order of two non-zero numbers of the same sign
           magLt(a, b) ==
             IF a.k = "inf" THEN FALSE
             ELSE IF b.k = "inf" THEN TRUE
             ELSE LET la == BitLen(a.m) + a.e
                      lb == BitLen(b.m) + b.e
                  IN  IF la # lb THEN la < lb
                      ELSE a.m * 2^(Precision - BitLen(a.m))
                             < b.m * 2^(Precision - BitLen(b.m))
       IN  IF sx # sy THEN sx < sy
           ELSE IF sx = 0 THEN FALSE
           ELSE IF sx = 1 THEN magLt(x, y) ELSE magLt(y, x)

RECURSIVE IRootBits(_, _, _, _)
IRootBits(A, n, r, b) ==
  IF b < 0 THEN r
  ELSE IF (r + 2^b)^n <= A THEN IRootBits(A, n, r + 2^b, b - 1)
  ELSE IRootBits(A, n, r, b - 1)

\* the largest r < 2^Precision with r^n <= A
IRoot(A, n) == IRootBits(A, n, 0, Precision - 1)

\* Math.pow(x, num/den) for the fractional exponents of the source
\* (0.8 = 4/5, 0.4 = 2/5, 1.0/3.0): NaN for NaN and for a negative base,
\* +Infinity for an infinite base, +0 for a zero base, and for a positive
\* finite base the root of the exact power, to Precision bits.
PowFrac(x, num, den) ==
  IF IsNaN(x) THEN NaN
  ELSE IF x.k = "inf" THEN Infinity(1)
  ELSE IF x.k = "zero" THEN Zero(1)
  ELSE IF x.s < 0 THEN NaN
  ELSE LET mn == x.m^num
           t0 == den * (Precision - 1) + 1 - BitLen(mn)
           t == t0 + ((num * x.e - t0) % den)
       IN  Round(1, IRoot(mn * 2^t, den), (num * x.e - t) \div den)

\* Math.pow(x, 2)
PowTwo(x) == Mul(x, x)

(***************************************************************************)
(* types: SealInputs, SealResults                                          *)
(***************************************************************************)
FieldNames == {"d_outer", "n_rpm", "rho", "mu", "lambda_gas", "Pr",
               "u_axial", "delta_gap", "d_hyd", "B"}

ResultNames == {"Re_rot", "Re_ax", "Nu_s", "H_s", "Nu_r", "H_r"}

(***************************************************************************)
(* utils/formulas: calculateHeatTransfer                                   *)
(***************************************************************************)
Two == FromRational(2, 1)
MathPI == FromRational(355, 113)
Sixty == FromRational(60, 1)
Half == FromRational(1, 2)
C0023 == FromRational(23, 1000)
C0135 == FromRational(135, 1000)

\* omega left in revolutions per minute: 2 * Math.PI * n_rpm
Omega_NoSixty(n_rpm) == Mul(Mul(Two, MathPI), n_rpm)

\* omega = 2 * Math.PI * n_rpm / 60.0
Omega(n_rpm) == Div(Mul(Mul(Two, MathPI), n_rpm), Sixty)

\* omega in the denominator: (rho * d_outer * d_hyd) / (2 * mu * omega)
ReRot_OmegaBelow(rho, omega, d_outer, d_hyd, mu) ==
  Div(Mul(Mul(rho, d_outer), d_hyd), Mul(Mul(Two, mu), omega))

\* Re_rot = (rho * omega * d_outer * d_hyd) / (2 * mu)
ReRot(rho, omega, d_outer, d_hyd, mu) ==
  Div(Mul(Mul(Mul(rho, omega), d_outer), d_hyd), Mul(Two, mu))

\* Re_ax = (2 * rho * u_axial * delta_gap) / mu
ReAx(rho, u_axial, delta_gap, mu) ==
  Div(Mul(Mul(Mul(Two, rho), u_axial), delta_gap), mu)

\* B inside the power: 0.023 * Math.pow(B * Re_ax, 0.8) * Math.pow(Pr, 0.4)
NuS_BInPower(B, Re_ax, Pr) ==
  Mul(Mul(C0023, PowFrac(Mul(B, Re_ax), 4, 5)), PowFrac(Pr, 2, 5))

\* Nu_s = 0.023 * B * Math.pow(Re_ax, 0.8) * Math.pow(Pr, 0.4)
NuS(B, Re_ax, Pr) ==
  Mul(Mul(Mul(C0023, B), PowFrac(Re_ax, 4, 5)), PowFrac(Pr, 2, 5))

\* H_s = (Nu_s * lambda_gas) / (2 * delta_gap)
HS(Nu_s, lambda_gas, delta_gap) ==
  Div(Mul(Nu_s, lambda_gas), Mul(Two, delta_gap))

\* term_in_Nu_r = (0.5 * Math.pow(Re_rot, 2) + Math.pow(Re_ax, 2)) * Pr
\* Nu_r = 0.135 * Math.pow(term_in_Nu_r, 1.0 / 3.0)
NuR(Re_rot, Re_ax, Pr) ==
  LET term_in_Nu_r == Mul(Add(Mul(Half, PowTwo(Re_rot)), PowTwo(Re_ax)), Pr)
  IN  Mul(C0135, PowFrac(term_in_Nu_r, 1, 3))

\* H_r = (Nu_r * lambda_gas) / d_hyd
HR(Nu_r, lambda_gas, d_hyd) == Div(Mul(Nu_r, lambda_gas), d_hyd)

calculateHeatTransfer(inputs) ==
  LET omega == Omega(inputs.n_rpm)
      Re_rot == ReRot(inputs.rho, omega, inputs.d_outer, inputs.d_hyd, inputs.mu)
      Re_ax == ReAx(inputs.rho, inputs.u_axial, inputs.delta_gap, inputs.mu)
      Nu_s == NuS(inputs.B, Re_ax, inputs.Pr)
      H_s == HS(Nu_s, inputs.lambda_gas, inputs.delta_gap)
      Nu_r == NuR(Re_rot, Re_ax, inputs.Pr)
      H_r == HR(Nu_r, inputs.lambda_gas, inputs.d_hyd)
  IN  [Re_rot |-> Re_rot, Re_ax |-> Re_ax, Nu_s |-> Nu_s, H_s |-> H_s,
       Nu_r |-> Nu_r, H_r |-> H_r]

(***************************************************************************)
(* App: INITIAL_INPUTS                                                     *)
(***************************************************************************)
INITIAL_INPUTS ==
  [d_outer |-> FromRational(150, 1000),
   n_rpm |-> FromRational(10300, 1),
   rho |-> FromRational(1225, 1000),
   mu |-> FromRational(181, 10000000),
   lambda_gas |-> FromRational(26, 1000),
   Pr |-> FromRational(71, 100),
   u_axial |-> FromRational(5, 1),
   delta_gap |-> FromRational(5, 1000000),
   d_hyd |-> FromRational(1, 100000),
   B |-> FromRational(2, 1)]

(***************************************************************************)
(* State                                                                   *)
(***************************************************************************)
VARIABLES
  inputs,        \* App: useState<SealInputs>(INITIAL_INPUTS)
  results,       \* App: useState<SealResults | null>(null): a reference, 0 = null
  heap,          \* the SealResults records that are still referenced
  aiAnalysis,    \* App: useState<string>("")
  isAnalyzing,   \* App: useState<boolean>(false)
  apiKeyMissing, \* App: useState<boolean>(false)
  apiKey,        \* whether process.env.API_KEY is set
  effects,       \* passive effects not yet run: "mount", "inputs" or "none"
  calls,         \* the analyzeResults calls that have not settled
  lastEvent,     \* the change, click or settlement handled last, until the next render
  edits,         \* number of change events handled
  args,          \* the inputs handed to calculateHeatTransfer, in order
  rets           \* what the calls made so far returned

appVars == <<inputs, results, heap, aiAnalysis, isAnalyzing, apiKeyMissing,
             apiKey, effects, calls, lastEvent, edits>>
calcVars == <<args, rets>>
vars == <<inputs, results, heap, aiAnalysis, isAnalyzing, apiKeyMissing,
          apiKey, effects, calls, lastEvent, edits, args, rets>>

(***************************************************************************)
(* Bounds                                                                  *)
(***************************************************************************)
MaxVaried == 2
MaxEdits == 2
MaxCalls == 2

(***************************************************************************)
(* calculateHeatTransfer as a function of its argument                     *)
(***************************************************************************)
MaxNumber == Fin(1, 2^Precision - 1, EMax)

\* the numbers a field is drawn from: the initial value, zero, a negative
\* value, neighbouring numbers, and numbers at the ends of the range
FieldValues(f) ==
  {INITIAL_INPUTS[f], Zero(1)} \cup
  CASE f = "n_rpm" -> {Fin(1, 39, 8), Neg(INITIAL_INPUTS[f])}
    [] f = "u_axial" -> {Fin(1, 41, 0 - 3), Fin(1, 42, 0 - 3), Neg(INITIAL_INPUTS[f])}
    [] f = "rho" -> {MaxNumber}
    [] f = "mu" -> {Neg(INITIAL_INPUTS[f])}
    [] f = "B" -> {FromRational(4, 1), Fin(1, 11, EMin), Fin(1, 22, EMin),
                   Fin(1, 32, 1011), Fin(1, 32, 1012)}
    [] OTHER -> {}

Vary(S) == {[i EXCEPT ![f] = v] : i \in S, <<f, v>> \in
              UNION {{<<g, w>> : w \in FieldValues(g)} : g \in FieldNames}}

RECURSIVE VaryTimes(_, _)
VaryTimes(S, n) == IF n = 0 THEN S ELSE VaryTimes(Vary(S), n - 1)

InputSet == VaryTimes({INITIAL_INPUTS}, MaxVaried)

\* the code has no throw statement: every call returns a SealResults
Call ==
  /\ Len(rets) < Len(args)
  /\ rets' = Append(rets, [error |-> "none",
                           results |-> calculateHeatTransfer(args[Len(rets) + 1])])
  /\ UNCHANGED <<args>>
  /\ UNCHANGED appVars

(***************************************************************************)
(* App                                                                     *)
(***************************************************************************)
Refs == 1..(MaxCalls + 1)
NoEvent == [type |-> "none", name |-> "", value |-> ""]

Texts == {"", "-0", "-2", "3"}

\* the fields whose InputField is edited
EditNames == {"n_rpm", "mu", "delta_gap", "B"}

\* parseFloat(value) for the texts a number field delivers
ParseFloat(text) ==
  CASE text = "-0" -> Zero(0 - 1)
    [] text = "-2" -> Neg(FromRational(2, 1))
    [] text = "3" -> FromRational(3, 1)
    [] OTHER -> NaN

\* x ?? 0
OrZero_Nullish(x) == x

\* x || 0
OrZero(x) == IF IsNaN(x) \/ x.k = "zero" THEN Zero(1) ELSE x

\* { ...prev, [name]: parseFloat(value) || 0 }
NextInputs(prev, name, value) ==
  [prev EXCEPT ![name] = OrZero(ParseFloat(value))]

\* an effect with an empty dependency list: it keeps the first render's inputs
EffectResult_Stale(inp) == calculateHeatTransfer(INITIAL_INPUTS)

\* const res = calculateHeatTransfer(inputs)
EffectResult(inp) == calculateHeatTransfer(inp)

\* the records still referenced once results is r and the calls are cs
Live(r, cs) == {r} \cup {cs[i].results : i \in 1..Len(cs)}

\* the record results refers to is written in place
NewRef_InPlace(r, cs) == IF r # 0 THEN r ELSE 1

\* setResults(res): res is a record calculateHeatTransfer has just made
NewRef(r, cs) == CHOOSE n \in Refs : n \notin Live(r, cs)

\* disabled={apiKeyMissing}
ButtonDisabled_KeyOnly == apiKeyMissing

\* disabled={isAnalyzing || apiKeyMissing}
ButtonDisabled == isAnalyzing \/ apiKeyMissing

\* analyzeResults(inputs, results), with what the service answered
ServiceText == "assessment"
FallbackText == "no analysis could be generated"
analyzeResults(call, answer) ==
  IF call.keyMissing THEN [threw |-> TRUE, text |-> "API key missing"]
  ELSE IF answer = "rejected" THEN [threw |-> TRUE, text |-> "AI analysis failed"]
  ELSE IF answer = "empty" THEN [threw |-> FALSE, text |-> FallbackText]
  ELSE [threw |-> FALSE, text |-> ServiceText]

HandlerErrorText == "error while generating; check network or API key"

\* a catch block that also clears the results
AfterFailure_Reset(st) == [st EXCEPT !.aiAnalysis = HandlerErrorText, !.results = 0]

\* catch (err) { setAiAnalysis(...) }
AfterFailure(st) == [st EXCEPT !.aiAnalysis = HandlerErrorText]

AppInit ==
  /\ inputs = INITIAL_INPUTS
  /\ results = 0
  /\ heap = <<>>
  /\ aiAnalysis = ""
  /\ isAnalyzing = FALSE
  /\ apiKeyMissing = FALSE
  /\ apiKey \in BOOLEAN
  /\ effects = "mount"
  /\ calls = <<>>
  /\ lastEvent = NoEvent
  /\ edits = 0

\* The passive effects run: the recompute effect ([inputs]) and, after the
\* first render, the API key check ([]).  React runs pending effects before
\* it handles a later state update, so no other handler runs in between,
\* except a click that still sees the first render.
FlushEffects ==
  /\ effects # "none"
  /\ LET ref == NewRef(results, calls)
         keep == Live(0, calls) \ {0}
     IN  /\ results' = ref
         /\ heap' = [r \in keep \cup {ref} |->
                       IF r = ref THEN EffectResult(inputs) ELSE heap[r]]
  /\ apiKeyMissing' = IF effects = "mount" /\ ~apiKey THEN TRUE ELSE apiKeyMissing
  /\ effects' = "none"
  /\ lastEvent' = NoEvent
  /\ UNCHANGED <<inputs, aiAnalysis, isAnalyzing, apiKey, calls, edits>>
  /\ UNCHANGED calcVars

handleInputChange(name, value) ==
  /\ effects = "none"
  /\ edits < MaxEdits
  /\ inputs' = NextInputs(inputs, name, value)
  /\ effects' = "inputs"
  /\ lastEvent' = [type |-> "change", name |-> name, value |-> value]
  /\ edits' = edits + 1
  /\ UNCHANGED <<results, heap, aiAnalysis, isAnalyzing, apiKeyMissing, apiKey, calls>>
  /\ UNCHANGED calcVars

handleGenerateInsight ==
  /\ ~ButtonDisabled
  /\ effects # "inputs"
  /\ Len(calls) < MaxCalls
  /\ IF results = 0
     THEN /\ lastEvent' = [type |-> "click", name |-> "", value |-> ""]
          /\ UNCHANGED <<isAnalyzing, calls>>
     ELSE /\ isAnalyzing' = TRUE
          /\ calls' = Append(calls, [inputs |-> inputs, results |-> results,
                                     keyMissing |-> ~apiKey])
          /\ lastEvent' = NoEvent
  /\ UNCHANGED <<inputs, results, heap, aiAnalysis, apiKeyMissing, apiKey, effects, edits>>
  /\ UNCHANGED calcVars

\* the awaited analyzeResults call settles: try / catch / finally
Settle(i, answer) ==
  /\ effects = "none"
  /\ i \in 1..Len(calls)
  /\ LET out == analyzeResults(calls[i], answer)
         st == [aiAnalysis |-> aiAnalysis, inputs |-> inputs, results |-> results]
         after == IF out.threw THEN AfterFailure(st)
                  ELSE [st EXCEPT !.aiAnalysis = out.text]
         rest == [j \in 1..(Len(calls) - 1) |->
                    IF j < i THEN calls[j] ELSE calls[j + 1]]
     IN  /\ aiAnalysis' = after.aiAnalysis
         /\ inputs' = after.inputs
         /\ results' = after.results
         /\ calls' = rest
         /\ heap' = [r \in (Live(after.results, rest) \ {0}) |-> heap[r]]
  /\ isAnalyzing' = FALSE
  /\ lastEvent' = [type |-> "settle", name |-> "", value |-> answer]
  /\ UNCHANGED <<apiKeyMissing, apiKey, effects, edits>>
  /\ UNCHANGED calcVars

Init ==
  /\ AppInit
  /\ args = <<>>
  /\ rets = <<>>

Next ==
  \/ FlushEffects
  \/ \E name \in EditNames, value \in Texts : handleInputChange(name, value)
  \/ handleGenerateInsight
  \/ \E i \in 1..MaxCalls, answer \in {"text", "empty", "rejected"} : Settle(i, answer)

Spec == Init /\ [][Next]_vars

CalcInit ==
  /\ AppInit
  /\ apiKey = TRUE
  /\ \E a \in InputSet : \E b \in Vary({a}) : args = <<a, b>>
  /\ rets = <<>>

CalcNext == Call

SpecCalc == CalcInit /\ [][CalcNext]_vars

(***************************************************************************)
(* Properties of calculateHeatTransfer (SpecCalc)                          *)
(***************************************************************************)
IsZero(x) == x.k = "zero"
Positive(x) == Lt(Zero(1), x)
NonNegative(x) == ~IsNaN(x) /\ ~Lt(x, Zero(1))
Between(x, lo, hi) == ~IsNaN(x) /\ ~Lt(x, lo) /\ ~Lt(hi, x)

\* the domain constraints of SealInputs
Valid(i) ==
  \A f \in FieldNames :
    /\ IsFinite(i[f])
    /\ IF f \in {"n_rpm", "u_axial"} THEN NonNegative(i[f]) ELSE Positive(i[f])

AllFinite(r) == \A n \in ResultNames : IsFinite(r[n])

Returned == 1..Len(rets)
BothOrders == {<<1, 2>>, <<2, 1>>}
DiffOnly(a, b, f) == a[f] # b[f] /\ \A g \in FieldNames \ {f} : a[g] = b[g]

\* C1: every call with an input outside its domain fails with an
\* InvalidInputError and returns no SealResults; mu = 0 or delta_gap = 0
\* never yields a result containing Infinity or NaN.
C1_InvalidInputRejected ==
  \A k \in Returned :
    /\ ~Valid(args[k]) => rets[k].error = "InvalidInputError"
    /\ (IsZero(args[k].mu) \/ IsZero(args[k].delta_gap)) =>
         (rets[k].error = "none" => AllFinite(rets[k].results))

\* C2 as stated: for INITIAL_INPUTS, Re_rot is of the order of 29,090,472
\* and Re_ax is about 676.8, with H_r and H_s strictly positive.
C2_ReferenceCaseAsStated ==
  \A k \in Returned :
    args[k] = INITIAL_INPUTS =>
      /\ Between(rets[k].results.Re_rot, FromRational(2909047, 1),
                 FromRational(290904720, 1))
      /\ Between(rets[k].results.Re_ax, FromRational(643, 1), FromRational(711, 1))
      /\ Positive(rets[k].results.H_r)
      /\ Positive(rets[k].results.H_s)

\* C2 amended: for INITIAL_INPUTS, Re_rot is about 54.75 and Re_ax about
\* 3.384 (each within 5 %), and H_r and H_s are strictly positive and finite.
C2_ReferenceCase ==
  \A k \in Returned :
    args[k] = INITIAL_INPUTS =>
      /\ Between(rets[k].results.Re_rot, FromRational(5201, 100),
                 FromRational(5749, 100))
      /\ Between(rets[k].results.Re_ax, FromRational(3215, 1000),
                 FromRational(3553, 1000))
      /\ Positive(rets[k].results.H_r) /\ IsFinite(rets[k].results.H_r)
      /\ Positive(rets[k].results.H_s) /\ IsFinite(rets[k].results.H_s)

C2_Witness == \E k \in Returned : args[k] = INITIAL_INPUTS

\* C5: for valid inputs, n_rpm = 0 gives Re_rot = 0, and u_axial = 0 gives
\* Re_ax = 0, Nu_s = 0 and H_s = 0.
C5_ZeroSpeed ==
  \A k \in Returned :
    Valid(args[k]) =>
      /\ IsZero(args[k].n_rpm) => IsZero(rets[k].results.Re_rot)
      /\ IsZero(args[k].u_axial) =>
           /\ IsZero(rets[k].results.Re_ax)
           /\ IsZero(rets[k].results.Nu_s)
           /\ IsZero(rets[k].results.H_s)

\* C6 as stated: of two valid inputs that differ only in n_rpm the one with
\* the larger n_rpm has the strictly larger Re_rot, and of two that differ
\* only in u_axial the one with the larger u_axial has the strictly larger
\* Re_ax.
C6_StrictlyMonotone ==
  Len(rets) = 2 =>
    \A o \in BothOrders :
      LET a == args[o[1]]
          b == args[o[2]]
          ra == rets[o[1]].results
          rb == rets[o[2]].results
      IN  Valid(a) /\ Valid(b) =>
            /\ DiffOnly(a, b, "n_rpm") /\ Lt(a.n_rpm, b.n_rpm) => Lt(ra.Re_rot, rb.Re_rot)
            /\ DiffOnly(a, b, "u_axial") /\ Lt(a.u_axial, b.u_axial) => Lt(ra.Re_ax, rb.Re_ax)

\* C6 amended: of two valid inputs that differ only in n_rpm the one with the
\* larger n_rpm never has the smaller Re_rot, and of two that differ only in
\* u_axial the one with the larger u_axial never has the smaller Re_ax.
C6_Monotone ==
  Len(rets) = 2 =>
    \A o \in BothOrders :
      LET a == args[o[1]]
          b == args[o[2]]
          ra == rets[o[1]].results
          rb == rets[o[2]].results
      IN  Valid(a) /\ Valid(b) =>
            /\ DiffOnly(a, b, "n_rpm") /\ Lt(a.n_rpm, b.n_rpm) => ~Lt(rb.Re_rot, ra.Re_rot)
            /\ DiffOnly(a, b, "u_axial") /\ Lt(a.u_axial, b.u_axial) => ~Lt(rb.Re_ax, ra.Re_ax)

\* two valid inputs that differ only in n_rpm, both computed, with Re_rot
\* strictly larger for the larger n_rpm
C6_Witness ==
  /\ Len(rets) = 2
  /\ Valid(args[1]) /\ Valid(args[2])
  /\ DiffOnly(args[1], args[2], "n_rpm")
  /\ Lt(args[1].n_rpm, args[2].n_rpm)
  /\ Lt(rets[1].results.Re_rot, rets[2].results.Re_rot)

Doubled(a, b) == DiffOnly(a, b, "B") /\ b.B = Mul(Two, a.B)

SameButStatic(ra, rb) ==
  /\ rb.Re_rot = ra.Re_rot
  /\ rb.Re_ax = ra.Re_ax
  /\ rb.Nu_r = ra.Nu_r
  /\ rb.H_r = ra.H_r

\* C7 as stated: for valid inputs, replacing B by 2 * B exactly doubles Nu_s
\* and H_s and leaves Re_rot, Re_ax, Nu_r and H_r unchanged.
C7_ExactDoubling ==
  Len(rets) = 2 =>
    \A o \in BothOrders :
      LET a == args[o[1]]
          b == args[o[2]]
          ra == rets[o[1]].results
          rb == rets[o[2]].results
      IN  Valid(a) /\ Valid(b) /\ Doubled(a, b) =>
            /\ rb.Nu_s = Mul(Two, ra.Nu_s)
            /\ rb.H_s = Mul(Two, ra.H_s)
            /\ SameButStatic(ra, rb)

\* a normal number: not zero, not subnormal, not infinite
IsNormal(x) == x.k = "fin" /\ x.m >= 2^(Precision - 1)

\* no product of the Nu_s and H_s computation for input a is subnormal or
\* rounded to zero (when Re_ax is 0 every product is exactly 0)
StaticChainNormal(a, ra) ==
  LET p1 == PowFrac(ra.Re_ax, 4, 5)
      x1 == Mul(C0023, a.B)
      x2 == Mul(x1, p1)
      x3 == Mul(x2, PowFrac(a.Pr, 2, 5))
      y == Mul(x3, a.lambda_gas)
      d == Mul(Two, a.delta_gap)
  IN  /\ IsNormal(x1)
      /\ \/ IsZero(p1)
         \/ /\ IsNormal(x2) /\ IsNormal(x3) /\ IsNormal(y)
            /\ d.k = "inf" \/ IsNormal(Div(y, d))

\* C7 amended: for valid inputs, replacing B by 2 * B leaves Re_rot, Re_ax,
\* Nu_r and H_r unchanged, and exactly doubles Nu_s and H_s provided that no
\* product of the Nu_s and H_s computation for B is subnormal or rounded to
\* zero and that Nu_s and H_s for 2 * B are finite.
C7_DoublingInRange ==
  Len(rets) = 2 =>
    \A o \in BothOrders :
      LET a == args[o[1]]
          b == args[o[2]]
          ra == rets[o[1]].results
          rb == rets[o[2]].results
      IN  Valid(a) /\ Valid(b) /\ Doubled(a, b) =>
            /\ SameButStatic(ra, rb)
            /\ StaticChainNormal(a, ra) /\ IsFinite(rb.Nu_s) /\ IsFinite(rb.H_s) =>
                 /\ rb.Nu_s = Mul(Two, ra.Nu_s)
                 /\ rb.H_s = Mul(Two, ra.H_s)

\* INITIAL_INPUTS and the same with B doubled, both computed, Nu_s not zero
C7_Witness ==
  /\ Len(rets) = 2
  /\ args[1] = INITIAL_INPUTS
  /\ Doubled(args[1], args[2])
  /\ StaticChainNormal(args[1], rets[1].results)
  /\ Positive(rets[1].results.Nu_s)
  /\ IsFinite(rets[2].results.H_s)

(***************************************************************************)
(* Properties of App (Spec)                                                *)
(***************************************************************************)
\* the SealResults record that results refers to
ResultsRecord == heap[results]

UpToDate == results # 0 /\ ResultsRecord = calculateHeatTransfer(inputs)

\* a step that settles an analyzeResults call
Settled == Len(calls') < Len(calls)

\* a step in which the pending recompute effect runs
Recomputed == effects # "none" /\ effects' = "none"

\* C3: once the recompute effect for the latest edit has run, results is
\* calculateHeatTransfer(inputs) for the current inputs; each recomputation
\* puts a newly made record in results and leaves every record made before
\* as it was.
C3_ResultsFollowInputs ==
  /\ [](effects = "none" => UpToDate)
  /\ [][Recomputed =>
          /\ results' \notin DOMAIN heap
          /\ results' # results
          /\ \A r \in DOMAIN heap \cap DOMAIN heap' : heap'[r] = heap[r]]_vars

\* an edit was recomputed while an analyzeResults call still holds the
\* record made before it
C3_Witness ==
  /\ edits > 0
  /\ effects = "none"
  /\ inputs # INITIAL_INPUTS
  /\ Len(calls) = 1
  /\ calls[1].results # results
  /\ calls[1].inputs # inputs

\* C4: a call that fails (the service rejects it) or answers with an empty
\* text leaves inputs and results as they were, sets aiAnalysis to the
\* failure text or the fallback text and isAnalyzing to false; afterwards
\* results is still calculateHeatTransfer(inputs), and the next edit is
\* recomputed as before.
C4_FailureIsContained ==
  /\ [][Settled /\ lastEvent'.value \in {"rejected", "empty"} =>
          /\ inputs' = inputs
          /\ results' = results
          /\ heap'[results'] = heap[results]
          /\ aiAnalysis' = (IF lastEvent'.value = "rejected"
                            THEN HandlerErrorText ELSE FallbackText)
          /\ ~isAnalyzing'
          /\ effects' = "none"
          /\ results' # 0
          /\ heap'[results'] = calculateHeatTransfer(inputs')]_vars
  /\ [][Recomputed /\ aiAnalysis \in {HandlerErrorText, FallbackText} =>
          heap'[results'] = calculateHeatTransfer(inputs)]_vars

\* the failure text is shown, no call is in flight, and an edit made after
\* the failure has been recomputed
C4_Witness ==
  /\ aiAnalysis = HandlerErrorText
  /\ calls = <<>>
  /\ ~isAnalyzing
  /\ effects = "none"
  /\ edits > 0
  /\ inputs # INITIAL_INPUTS
  /\ UpToDate

\* the value the claim gives the edited field
ParsedOrZero(text) ==
  LET x == ParseFloat(text)
  IN  IF x.k \in {"fin", "inf"} THEN x ELSE Zero(1)

\* C8: handleInputChange(name, value) sets exactly that field to the parsed
\* number, or to 0 when the text does not parse to a non-zero number, and
\* leaves every other field unchanged; nothing is rejected or clamped, and
\* the recompute effect hands the inputs to calculateHeatTransfer also when
\* a field is outside its domain.
C8_InputChangeFrame ==
  /\ [][edits' # edits =>
          /\ lastEvent'.type = "change"
          /\ inputs'[lastEvent'.name] = ParsedOrZero(lastEvent'.value)
          /\ \A f \in FieldNames \ {lastEvent'.name} : inputs'[f] = inputs[f]
          /\ effects' = "inputs"]_vars
  /\ [][Recomputed => heap'[results'] = calculateHeatTransfer(inputs')]_vars

\* a field with a strictly positive domain is zero or negative, and results
\* was computed from it
C8_Witness ==
  /\ effects = "none"
  /\ \E f \in {"mu", "delta_gap", "d_hyd"} : ~Positive(inputs[f])
  /\ UpToDate

\* C9: isAnalyzing is true exactly when one analyzeResults call has not
\* settled, never more than one call is in flight, settling a call sets
\* isAnalyzing to false, no call is made while apiKeyMissing, and a click
\* while results is null starts no call and changes no state.
C9_IsAnalyzingTracksCall ==
  /\ [](/\ Len(calls) <= 1
        /\ isAnalyzing <=> Len(calls) = 1
        /\ apiKeyMissing => calls = <<>>)
  /\ [][Settled => ~isAnalyzing']_vars
  /\ [][lastEvent'.type = "click" =>
          /\ results = 0
          /\ UNCHANGED <<inputs, results, heap, aiAnalysis, isAnalyzing,
                         apiKeyMissing, calls, effects>>]_vars

\* one call is in flight after an edit
C9_Witness == isAnalyzing /\ Len(calls) = 1 /\ edits > 0

\* C10: every analyzeResults call holds a consistent pair: its results are
\* calculateHeatTransfer of its inputs.
C10_CallArgsConsistent ==
  \A i \in 1..Len(calls) :
    /\ calls[i].results # 0
    /\ heap[calls[i].results] = calculateHeatTransfer(calls[i].inputs)

\* a call made after an edit is in flight while a later edit has changed
\* inputs and results
C10_Witness ==
  /\ Len(calls) = 1
  /\ calls[1].inputs # INITIAL_INPUTS
  /\ calls[1].inputs # inputs
  /\ effects = "none"
  /\ calls[1].results # results

====
